---------------------------- MODULE Spec2Model ----------------------------
(***************************************************************************)
(* State-machine model of pyload's AddonManager                            *)
(* (src/src/pyload/manager/addon_manager.py).                              *)
(*                                                                         *)
(* Every caller thread owns a call stack of frames.  A frame is one        *)
(* activation of a manager method (createIndex, activateAddon,             *)
(* deactivateAddon, a lifecycle hook, dispatchEvent); its pc is the        *)
(* statement the method is at.  Python `for x in list` is modelled as the  *)
(* list iterator is implemented: a position into the LIVE list, compared   *)
(* with the list's current length at every step.                           *)
(***************************************************************************)
EXTENDS Integers, Sequences, FiniteSets, TLC

\* ---------------------------------------------------------------- bounds
MaxInst == 3          \* addon instances constructed in one run
MaxCalls == 2         \* calls of hooks, config.pluginCB and callRPC in one run
MaxBus == 2           \* calls of addEvent, removeEvent and addRPC in one run

\* ------------------------------------------------------------ the universe
Threads == {1, 2}
Names == {"A", "B"}
AddonPlugins == <<"A", "B">>
Files == {"f1", "f2"}
Packages == {"p1"}
Addresses == {"ip1"}
Funcs == {"scan"}
Listeners == {"L1", "L2"}
NoInst == 0
NoThread == 0

Hooks ==
    {"coreReady", "coreExiting", "downloadPreparing", "downloadFinished",
     "downloadFailed", "packageFinished", "beforeReconnecting",
     "afterReconnecting"}

\* ------------------------------------------------- the hooks' decorations
\* @lock (lines 192, 200, 211, 223, 234, 241)
Locked(H) == H \notin {"coreReady", "coreExiting"}

\* @try_catch (lines 176, 184, 212)
GuardedNone(H) == FALSE
Guarded(H) == H \in {"coreReady", "coreExiting", "downloadFailed"}

\* `if plugin.isActivated():` in the loop body; beforeReconnecting has none
ChecksActivatedAll(H) == TRUE
ChecksActivated(H) == H # "beforeReconnecting"

\* `if "<H>" in plugin.__threaded__:` in the loop body
ChecksThreadedNone(H) == FALSE
ChecksThreaded(H) == H \in {"downloadFinished", "downloadFailed", "packageFinished"}

\* the bound method handed to startThread (line 217 hands downloadFinished)
SubmittedCallback(H) == IF H = "downloadFailed" THEN "downloadFinished" ELSE H

\* the argument tuple a hook is called with
HookArgs(H) ==
    IF H \in {"coreReady", "coreExiting"} THEN {<<>>}
    ELSE IF H = "packageFinished" THEN {<<x>> : x \in Packages}
    ELSE IF H \in {"beforeReconnecting", "afterReconnecting"} THEN {<<x>> : x \in Addresses}
    ELSE {<<x>> : x \in Files}

\* __threaded__ of the addon classes: A runs every hook in the background
\* when the manager lets it, B runs everything inline
Threaded(n) == IF n = "A" THEN Hooks ELSE {}

VARIABLES
    plugins,      \* self.plugins: list of instance ids
    pluginMap,    \* self.pluginMap: dict name -> instance id
    methods,      \* self.methods: dict name -> dict func -> doc
    events,       \* self.events: dict event -> list of listeners
    lockOwner,    \* self.lock (RLock): owning thread
    lockCount,    \* self.lock (RLock): recursion level
    insts,        \* every addon instance constructed: id -> [name, act]
    stack,        \* call stack of every thread
    pool,         \* callables handed to AddonThread / start_new_thread, not yet run
    ncalls        \* calls made so far: ncalls.call by the engine and the
                  \* configuration, ncalls.bus by addons on the bus and RPC table

vars == <<plugins, pluginMap, methods, events, lockOwner, lockCount, insts,
          stack, pool, ncalls>>

\* ----------------------------------------------------------------- helpers
Range(s) == {s[k] : k \in 1..Len(s)}

\* list.remove(x): drops the first element equal to x
FirstIndex(s, x) == CHOOSE k \in 1..Len(s) : s[k] = x /\ \A j \in 1..(k-1) : s[j] # x
ListRemove(s, x) ==
    LET k == FirstIndex(s, x)
    IN  SubSeq(s, 1, k-1) \o SubSeq(s, k+1, Len(s))

\* dict[key] = val
DictSet(d, key, val) == [k \in DOMAIN d \cup {key} |-> IF k = key THEN val ELSE d[k]]
\* del dict[key]
DictDel(d, key) == [k \in DOMAIN d \ {key} |-> d[k]]
EmptyDict == [k \in {} |-> 0]

InstName(id) == insts[id].name
\* plugin.isActivated()
isActivated(id) == insts[id].act

Top(s) == s[Len(s)]
SetTop(s, f) == [s EXCEPT ![Len(s)] = f]
Pop(s) == SubSeq(s, 1, Len(s) - 1)

Frame(op, h, name, args) ==
    [op |-> op, pc |-> "start", h |-> h, name |-> name, args |-> args,
     i |-> 1, inst |-> NoInst, acc |-> <<>>, snap |-> <<>>,
     log |-> <<>>, dirty |-> FALSE, exc |-> FALSE, errs |-> 0]

\* a frame that watches a list is marked when the list is changed under it
MarkHooks(st) ==
    [t \in Threads |->
        [k \in 1..Len(st[t]) |->
            IF st[t][k].op = "hook" /\ st[t][k].pc \notin {"done", "raised"}
            THEN [st[t][k] EXCEPT !.dirty = TRUE] ELSE st[t][k]]]
MarkFires(st, E) ==
    [t \in Threads |->
        [k \in 1..Len(st[t]) |->
            IF st[t][k].op = "fire" /\ st[t][k].h = E /\ st[t][k].pc \notin {"done", "raised"}
            THEN [st[t][k] EXCEPT !.dirty = TRUE] ELSE st[t][k]]]

\* an activateAddon in its loop is marked when the index ps holds no instance
\* of the name it was called with
NameIn(ps, n) == \E j \in 1..Len(ps) : InstName(ps[j]) = n
MarkAbsent(st, ps) ==
    [t \in Threads |->
        [k \in 1..Len(st[t]) |->
            IF st[t][k].op = "activateAddon" /\ st[t][k].pc = "start" /\ ~NameIn(ps, st[t][k].name)
            THEN [st[t][k] EXCEPT !.dirty = TRUE] ELSE st[t][k]]]

\* a dispatchEvent in its loop also notes the listeners removed under it
MarkRemoved(st, E, f) ==
    [t \in Threads |->
        [k \in 1..Len(st[t]) |->
            IF st[t][k].op = "fire" /\ st[t][k].h = E /\ st[t][k].pc \notin {"done", "raised"}
            THEN [st[t][k] EXCEPT !.dirty = TRUE, !.acc = Append(@, f)] ELSE st[t][k]]]

Booted == IF Len(stack[1]) = 0 THEN TRUE ELSE stack[1][1].op # "createIndex"
Running(t) == Len(stack[t]) > 0
At(t, op, pc) == Running(t) /\ Top(stack[t]).op = op /\ Top(stack[t]).pc = pc

\* ------------------------------------------------------------------- Init
\* __init__ up to the call of createIndex (lines 46-65): the lists are empty,
\* manageAddons listens on pluginConfigChanged, the main thread is about to
\* build the index.
Init ==
    /\ plugins = <<>>
    /\ pluginMap = EmptyDict
    /\ methods = EmptyDict
    /\ events = [e \in {"pluginConfigChanged"} |-> <<"manageAddons">>]
    /\ lockOwner = NoThread
    /\ lockCount = 0
    /\ insts = <<>>
    /\ stack = [t \in Threads |->
                  IF t = 1 THEN <<[Frame("createIndex", "", "", <<>>) EXCEPT !.pc = "loop"]>>
                  ELSE <<>>]
    /\ pool = {}
    /\ ncalls = [call |-> 0, bus |-> 0]

\* ------------------------------------------------------------ createIndex
\* lines 101-121, one pass of the loop for a plugin that is not added:
\* configured inactive, loadClass gave nothing, or the constructor raised
createIndexSkip(t) ==
    /\ At(t, "createIndex", "loop")
    /\ Top(stack[t]).i <= Len(AddonPlugins)
    /\ stack' = [stack EXCEPT ![t] = SetTop(@, [Top(@) EXCEPT !.i = @ + 1])]
    /\ UNCHANGED <<plugins, pluginMap, methods, events, lockOwner, lockCount,
                   insts, pool, ncalls>>

\* lines 105-116, one pass of the loop for a plugin that is constructed
createIndexAdd(t) ==
    /\ At(t, "createIndex", "loop")
    /\ Top(stack[t]).i <= Len(AddonPlugins)
    /\ Len(insts) < MaxInst
    /\ \E act \in BOOLEAN :
         LET fr == Top(stack[t])
             n == AddonPlugins[fr.i]
             id == Len(insts) + 1
         IN  /\ insts' = Append(insts, [name |-> n, act |-> act])
             /\ pluginMap' = DictSet(pluginMap, n, id)
             /\ stack' = [stack EXCEPT ![t] =
                    SetTop(@, [fr EXCEPT !.i = @ + 1, !.acc = Append(@, id)])]
    /\ UNCHANGED <<plugins, methods, events, lockOwner, lockCount, pool, ncalls>>

\* line 126: self.plugins = plugins, and __init__ returns
createIndexAssign(t) ==
    /\ At(t, "createIndex", "loop")
    /\ Top(stack[t]).i > Len(AddonPlugins)
    /\ plugins' = Top(stack[t]).acc
    /\ stack' = [stack EXCEPT ![t] = Pop(@)]
    /\ UNCHANGED <<pluginMap, methods, events, lockOwner, lockCount, insts,
                   pool, ncalls>>

createIndex(t) == createIndexSkip(t) \/ createIndexAdd(t) \/ createIndexAssign(t)

\* ---------------------------------------------------------- activateAddon
\* an instance of that name is in self.plugins
AlreadyLoaded(n) == \E k \in 1..Len(plugins) : InstName(plugins[k]) = n

\* lines 137-138: the loop is at an instance of another name and goes on; the
\* iterator is a position into the live list
activateCheckNext(t) ==
    /\ At(t, "activateAddon", "start")
    /\ LET fr == Top(stack[t])
       IN  /\ fr.i <= Len(plugins)
           /\ InstName(plugins[fr.i]) # fr.name
           /\ stack' = [stack EXCEPT ![t] = SetTop(@, [fr EXCEPT !.i = @ + 1])]
    /\ UNCHANGED <<plugins, pluginMap, methods, events, lockOwner, lockCount,
                   insts, pool, ncalls>>

\* lines 137-139: the loop is at an instance of that name, activateAddon returns
activateLoaded(t) ==
    /\ At(t, "activateAddon", "start")
    /\ LET fr == Top(stack[t])
       IN  /\ fr.i <= Len(plugins)
           /\ InstName(plugins[fr.i]) = fr.name
           /\ stack' = [stack EXCEPT ![t] = SetTop(@, [fr EXCEPT !.pc = "done"])]
    /\ UNCHANGED <<plugins, pluginMap, methods, events, lockOwner, lockCount,
                   insts, pool, ncalls>>

\* lines 141-144: the loop found nothing, loadClass gives no class
activateNoClass(t) ==
    /\ At(t, "activateAddon", "start")
    /\ Top(stack[t]).i > Len(plugins)
    /\ stack' = [stack EXCEPT ![t] = SetTop(@, [Top(@) EXCEPT !.pc = "done"])]
    /\ UNCHANGED <<plugins, pluginMap, methods, events, lockOwner, lockCount,
                   insts, pool, ncalls>>

\* line 148: the constructor raises, nothing catches it in activateAddon
activateCtorRaises(t) ==
    /\ At(t, "activateAddon", "start")
    /\ Top(stack[t]).i > Len(plugins)
    /\ stack' = [stack EXCEPT ![t] = SetTop(@, [Top(@) EXCEPT !.pc = "raised", !.exc = TRUE])]
    /\ UNCHANGED <<plugins, pluginMap, methods, events, lockOwner, lockCount,
                   insts, pool, ncalls>>

\* lines 141-148: loadClass gives the class and the constructor returns
activateConstruct(t) ==
    /\ At(t, "activateAddon", "start")
    /\ Top(stack[t]).i > Len(plugins)
    /\ Len(insts) < MaxInst
    /\ \E act \in BOOLEAN :
         /\ insts' = Append(insts, [name |-> Top(stack[t]).name, act |-> act])
         /\ stack' = [stack EXCEPT ![t] =
                SetTop(@, [Top(@) EXCEPT !.pc = "append", !.inst = Len(insts) + 1])]
    /\ UNCHANGED <<plugins, pluginMap, methods, events, lockOwner, lockCount,
                   pool, ncalls>>

\* line 149: self.plugins.append(plugin)
activateAppend(t) ==
    /\ At(t, "activateAddon", "append")
    /\ plugins' = Append(plugins, Top(stack[t]).inst)
    /\ stack' = MarkHooks([stack EXCEPT ![t] = SetTop(@, [Top(@) EXCEPT !.pc = "map"])])
    /\ UNCHANGED <<pluginMap, methods, events, lockOwner, lockCount, insts,
                   pool, ncalls>>

\* lines 150-153: self.pluginMap[name] = plugin; start_new_thread(plugin.coreReady, ())
activateMap(t) ==
    /\ At(t, "activateAddon", "map")
    /\ LET fr == Top(stack[t])
       IN  /\ pluginMap' = DictSet(pluginMap, fr.name, fr.inst)
           /\ pool' = pool \cup {[inst |-> fr.inst, cb |-> "coreReady", args |-> <<>>]}
           /\ stack' = [stack EXCEPT ![t] = SetTop(@, [fr EXCEPT !.pc = "done"])]
    /\ UNCHANGED <<plugins, methods, events, lockOwner, lockCount, insts, ncalls>>

activateAddon(t) ==
    \/ activateCheckNext(t)
    \/ activateLoaded(t)
    \/ activateNoClass(t)
    \/ activateCtorRaises(t)
    \/ activateConstruct(t)
    \/ activateAppend(t)
    \/ activateMap(t)

\* -------------------------------------------------------- deactivateAddon
\* lines 157-160: the loop keeps the LAST instance of that name
FindAddon(n) ==
    IF AlreadyLoaded(n)
    THEN plugins[CHOOSE k \in 1..Len(plugins) :
                    /\ InstName(plugins[k]) = n
                    /\ \A j \in (k+1)..Len(plugins) : InstName(plugins[j]) # n]
    ELSE NoInst

\* a deactivateAddon that raises when it finds no addon of that name
deactivateAbsentRaises(t) ==
    /\ At(t, "deactivateAddon", "start")
    /\ FindAddon(Top(stack[t]).name) = NoInst
    /\ stack' = [stack EXCEPT ![t] = SetTop(@, [Top(@) EXCEPT !.pc = "raised", !.exc = TRUE])]
    /\ UNCHANGED <<plugins, pluginMap, methods, events, lockOwner, lockCount,
                   insts, pool, ncalls>>

\* lines 162-163: `if not addon: return`
deactivateAbsent(t) ==
    /\ At(t, "deactivateAddon", "start")
    /\ FindAddon(Top(stack[t]).name) = NoInst
    /\ stack' = [stack EXCEPT ![t] = SetTop(@, [Top(@) EXCEPT !.pc = "done"])]
    /\ UNCHANGED <<plugins, pluginMap, methods, events, lockOwner, lockCount,
                   insts, pool, ncalls>>

\* lines 167-172: addon.unload() or scheduler.removeJob(addon.cb) raises; the
\* statements after it are not reached and nothing in deactivateAddon catches
deactivateTeardownRaises(t) ==
    /\ At(t, "deactivateAddon", "start")
    /\ FindAddon(Top(stack[t]).name) # NoInst
    /\ stack' = [stack EXCEPT ![t] = SetTop(@,
          [Top(@) EXCEPT !.pc = "raised", !.exc = TRUE,
                         !.inst = FindAddon(Top(stack[t]).name)])]
    /\ UNCHANGED <<plugins, pluginMap, methods, events, lockOwner, lockCount,
                   insts, pool, ncalls>>

\* lines 157-172: the addon is found, unload() and removeJob() return
deactivateTeardown(t) ==
    /\ At(t, "deactivateAddon", "start")
    /\ FindAddon(Top(stack[t]).name) # NoInst
    /\ stack' = [stack EXCEPT ![t] = SetTop(@,
          [Top(@) EXCEPT !.pc = "remove", !.inst = FindAddon(Top(stack[t]).name)])]
    /\ UNCHANGED <<plugins, pluginMap, methods, events, lockOwner, lockCount,
                   insts, pool, ncalls>>

\* line 173: self.plugins.remove(addon); ValueError when it is not in the list
deactivateRemove(t) ==
    /\ At(t, "deactivateAddon", "remove")
    /\ LET fr == Top(stack[t])
       IN  IF fr.inst \in Range(plugins)
           THEN /\ plugins' = ListRemove(plugins, fr.inst)
                /\ stack' = MarkAbsent(
                       MarkHooks([stack EXCEPT ![t] = SetTop(@, [fr EXCEPT !.pc = "del"])]),
                       ListRemove(plugins, fr.inst))
           ELSE /\ plugins' = plugins
                /\ stack' = [stack EXCEPT ![t] =
                       SetTop(@, [fr EXCEPT !.pc = "raised", !.exc = TRUE])]
    /\ UNCHANGED <<pluginMap, methods, events, lockOwner, lockCount, insts,
                   pool, ncalls>>

\* line 174: del self.pluginMap[addon.__name__]; KeyError when the key is gone
deactivateDel(t) ==
    /\ At(t, "deactivateAddon", "del")
    /\ LET fr == Top(stack[t])
       IN  IF fr.name \in DOMAIN pluginMap
           THEN /\ pluginMap' = DictDel(pluginMap, fr.name)
                /\ stack' = [stack EXCEPT ![t] = SetTop(@, [fr EXCEPT !.pc = "done"])]
           ELSE /\ pluginMap' = pluginMap
                /\ stack' = [stack EXCEPT ![t] =
                       SetTop(@, [fr EXCEPT !.pc = "raised", !.exc = TRUE])]
    /\ UNCHANGED <<plugins, methods, events, lockOwner, lockCount, insts,
                   pool, ncalls>>

deactivateAddon(t) ==
    \/ deactivateAbsent(t)
    \/ deactivateTeardownRaises(t)
    \/ deactivateTeardown(t)
    \/ deactivateRemove(t)
    \/ deactivateDel(t)

\* ------------------------------------------------------------------- lock
\* a lock that is not reentrant: its owner cannot take it again
lockFreeOnce(t) == lockOwner = NoThread
\* pyload.utils.utils.lock: `args[0].lock.acquire()` before the wrapped call;
\* line 64: self.lock is an RLock, which its owner may take again
lockFree(t) == lockOwner \in {NoThread, t}
lockAcquire(t) == /\ lockOwner' = t
                  /\ lockCount' = lockCount + 1
\* pyload.utils.utils.lock: `finally: args[0].lock.release()`
lockRelease(t) == /\ lockCount' = lockCount - 1
                  /\ lockOwner' = IF lockCount = 1 THEN NoThread ELSE lockOwner

\* ------------------------------------------------------------------ hooks
\* one entry of a frame's record of the calls it made
Call(who, cb, mode, args, out) ==
    [who |-> who, cb |-> cb, mode |-> mode, args |-> args, out |-> out]

\* the loop body of hook H for addon instance id (lines 178-180, 194-196,
\* 202-207, 214-219, 225-230, 236-237, 243-245)
Delivery(H, id) ==
    IF ChecksActivated(H) /\ ~isActivated(id) THEN "skip"
    ELSE IF ChecksThreaded(H) /\ H \in Threaded(InstName(id)) THEN "thread"
    ELSE "inline"

\* line 250: AddonThread(self.pyload.threadManager, function, args, kwargs)
startThread(id, cb, args) == pool \cup {[inst |-> id, cb |-> cb, args |-> args]}

\* an exception leaves the body of hook H: try_catch (lines 69-72) logs it and
\* returns, an undecorated hook lets it out
Leave(fr) ==
    IF Guarded(fr.h) THEN [fr EXCEPT !.pc = "done", !.errs = @ + 1]
    ELSE [fr EXCEPT !.pc = "raised", !.exc = TRUE]

\* the hook is entered: @lock takes self.lock, `for plugin in self.plugins`
\* starts at the head of the list
hookEnter(t) ==
    /\ At(t, "hook", "start")
    /\ IF Locked(Top(stack[t]).h)
       THEN lockFree(t) /\ lockAcquire(t)
       ELSE UNCHANGED <<lockOwner, lockCount>>
    /\ stack' = [stack EXCEPT ![t] =
           SetTop(@, [Top(@) EXCEPT !.pc = "loop", !.snap = plugins])]
    /\ UNCHANGED <<plugins, pluginMap, methods, events, insts, pool, ncalls>>

\* `if plugin.isActivated():` is false, next addon
hookSkip(t) ==
    /\ At(t, "hook", "loop")
    /\ LET fr == Top(stack[t])
       IN  /\ fr.i <= Len(plugins)
           /\ Delivery(fr.h, plugins[fr.i]) = "skip"
           /\ stack' = [stack EXCEPT ![t] = SetTop(@, [fr EXCEPT !.i = @ + 1])]
    /\ UNCHANGED <<plugins, pluginMap, methods, events, lockOwner, lockCount,
                   insts, pool, ncalls>>

\* lines 205, 217, 228: self.startThread(plugin.<callback>, arg)
hookSubmit(t) ==
    /\ At(t, "hook", "loop")
    /\ LET fr == Top(stack[t])
           id == plugins[fr.i]
           cb == SubmittedCallback(fr.h)
       IN  /\ fr.i <= Len(plugins)
           /\ Delivery(fr.h, id) = "thread"
           /\ pool' = startThread(id, cb, fr.args)
           /\ stack' = [stack EXCEPT ![t] = SetTop(@,
                 [fr EXCEPT !.i = @ + 1,
                            !.log = Append(@, Call(id, cb, "thread", fr.args, "ok"))])]
    /\ UNCHANGED <<plugins, pluginMap, methods, events, lockOwner, lockCount,
                   insts, ncalls>>

\* lines 180, 188, 196, 207, 219, 230, 237, 245: plugin.<H>(arg) returns
callbackReturns(t) ==
    /\ At(t, "hook", "loop")
    /\ LET fr == Top(stack[t])
           id == plugins[fr.i]
       IN  /\ fr.i <= Len(plugins)
           /\ Delivery(fr.h, id) = "inline"
           /\ stack' = [stack EXCEPT ![t] = SetTop(@,
                 [fr EXCEPT !.i = @ + 1,
                            !.log = Append(@, Call(id, fr.h, "inline", fr.args, "ok"))])]
    /\ UNCHANGED <<plugins, pluginMap, methods, events, lockOwner, lockCount,
                   insts, pool, ncalls>>

\* the same lines: plugin.<H>(arg) raises
callbackRaises(t) ==
    /\ At(t, "hook", "loop")
    /\ LET fr == Top(stack[t])
           id == plugins[fr.i]
       IN  /\ fr.i <= Len(plugins)
           /\ Delivery(fr.h, id) = "inline"
           /\ stack' = [stack EXCEPT ![t] = SetTop(@,
                 Leave([fr EXCEPT !.log =
                           Append(@, Call(id, fr.h, "inline", fr.args, "raised"))]))]
    /\ UNCHANGED <<plugins, pluginMap, methods, events, lockOwner, lockCount,
                   insts, pool, ncalls>>

\* the arguments config.pluginCB is called with: plugin, option name, value
ConfigArgs ==
    {<<n, "activated", v>> : n \in Names, v \in BOOLEAN} \cup {<<n, "interval", TRUE>> : n \in Names}

\* line 60: config.pluginCB = MethodType(self.dispatchEvent, "pluginConfigChanged")
FireFrame(E, args) == [Frame("fire", E, "", args) EXCEPT !.pc = "loop",
                          !.snap = IF E \in DOMAIN events THEN events[E] ELSE <<>>]

\* the same lines: plugin.<H>(arg) changes a plugin's configuration, which
\* calls config.pluginCB on this thread before the callback returns
callbackReenters(t) ==
    /\ At(t, "hook", "loop")
    /\ ncalls.call < MaxCalls
    /\ LET fr == Top(stack[t])
           id == plugins[fr.i]
       IN  /\ fr.i <= Len(plugins)
           /\ Delivery(fr.h, id) = "inline"
           /\ \E a \in ConfigArgs :
                stack' = [stack EXCEPT ![t] = Append(SetTop(@,
                    [fr EXCEPT !.pc = "incall",
                               !.log = Append(@, Call(id, fr.h, "inline", fr.args, "pending"))]),
                    FireFrame("pluginConfigChanged", a))]
    /\ ncalls' = [ncalls EXCEPT !.call = @ + 1]
    /\ UNCHANGED <<plugins, pluginMap, methods, events, lockOwner, lockCount,
                   insts, pool>>

\* the same lines: plugin.<H>(arg) calls a hook of the manager on this thread
\* before it returns
callbackCallsHook(t) ==
    /\ At(t, "hook", "loop")
    /\ ncalls.call < MaxCalls
    /\ LET fr == Top(stack[t])
           id == plugins[fr.i]
       IN  /\ fr.i <= Len(plugins)
           /\ Delivery(fr.h, id) = "inline"
           /\ \E H \in Hooks : \E a \in HookArgs(H) :
                stack' = [stack EXCEPT ![t] = Append(SetTop(@,
                    [fr EXCEPT !.pc = "incall",
                               !.log = Append(@, Call(id, fr.h, "inline", fr.args, "pending"))]),
                    Frame("hook", H, "", a))]
    /\ ncalls' = [ncalls EXCEPT !.call = @ + 1]
    /\ UNCHANGED <<plugins, pluginMap, methods, events, lockOwner, lockCount,
                   insts, pool>>

\* lines 182, 190, 198, 209, 221, 232, 239, 247: the loop is over,
\* self.dispatchEvent("<H>", arg) is called from inside the hook's body; the
\* frame's acc lists the events the call has fired
hookDispatchEvent(t) ==
    /\ At(t, "hook", "loop")
    /\ Top(stack[t]).i > Len(plugins)
    /\ LET fr == Top(stack[t])
       IN  stack' = [stack EXCEPT ![t] = Append(SetTop(@,
                        [fr EXCEPT !.pc = "fire", !.acc = Append(@, <<fr.h, fr.args>>)]),
                    FireFrame(fr.h, fr.args))]
    /\ UNCHANGED <<plugins, pluginMap, methods, events, lockOwner, lockCount,
                   insts, pool, ncalls>>

hook(t) ==
    \/ hookEnter(t)
    \/ hookSkip(t)
    \/ hookSubmit(t)
    \/ callbackReturns(t)
    \/ callbackRaises(t)
    \/ callbackReenters(t)
    \/ hookDispatchEvent(t)

\* ---------------------------------------------------------- dispatchEvent
\* lines 128-132: what manageAddons(plugin, name, value) calls
manageAddons(args) ==
    IF args[2] = "activated" /\ args[3] THEN "activateAddon"
    ELSE IF args[2] = "activated" /\ ~args[3] THEN "deactivateAddon"
    ELSE "nothing"

\* lines 306-307: f(*args) returned
AfterListenerReturn(fr, f) ==
    [fr EXCEPT !.i = @ + 1, !.log = Append(@, Call(f, "", "inline", fr.args, "ok"))]

\* an exception of f(*args) let out of dispatchEvent
AfterListenerRaiseAbort(fr, f) ==
    [fr EXCEPT !.pc = "raised", !.exc = TRUE,
               !.log = Append(@, Call(f, "", "inline", fr.args, "raised"))]

\* lines 308-313: f(*args) raised, `except Exception` logs a warning and the
\* loop goes on
AfterListenerRaise(fr, f) ==
    [fr EXCEPT !.i = @ + 1, !.errs = @ + 1,
               !.log = Append(@, Call(f, "", "inline", fr.args, "raised"))]

\* line 304-305: the listener the loop is at
ListenerAt(fr) == events[fr.h][fr.i]
InLoop(fr) == fr.h \in DOMAIN events /\ fr.i <= Len(events[fr.h])

\* line 307 with f = manageAddons and nothing to do (lines 129, 131 both false)
dispatchManageNothing(t) ==
    /\ At(t, "fire", "loop")
    /\ LET fr == Top(stack[t])
       IN  /\ InLoop(fr)
           /\ ListenerAt(fr) = "manageAddons"
           /\ manageAddons(fr.args) = "nothing"
           /\ stack' = [stack EXCEPT ![t] = SetTop(@, AfterListenerReturn(fr, "manageAddons"))]
    /\ UNCHANGED <<plugins, pluginMap, methods, events, lockOwner, lockCount,
                   insts, pool, ncalls>>

\* line 307 with f = manageAddons: lines 130, 132 call activateAddon(plugin)
\* or deactivateAddon(plugin)
dispatchManage(t) ==
    /\ At(t, "fire", "loop")
    /\ LET fr == Top(stack[t])
       IN  /\ InLoop(fr)
           /\ ListenerAt(fr) = "manageAddons"
           /\ manageAddons(fr.args) # "nothing"
           /\ stack' = [stack EXCEPT ![t] = Append(SetTop(@, [fr EXCEPT !.pc = "incall"]),
                            [Frame(manageAddons(fr.args), "", fr.args[1], <<>>)
                                EXCEPT !.dirty = ~NameIn(plugins, fr.args[1])])]
    /\ UNCHANGED <<plugins, pluginMap, methods, events, lockOwner, lockCount,
                   insts, pool, ncalls>>

\* line 307 with f a listener an addon registered: it returns
listenerReturns(t) ==
    /\ At(t, "fire", "loop")
    /\ LET fr == Top(stack[t])
       IN  /\ InLoop(fr)
           /\ ListenerAt(fr) \in Listeners
           /\ stack' = [stack EXCEPT ![t] = SetTop(@, AfterListenerReturn(fr, ListenerAt(fr)))]
    /\ UNCHANGED <<plugins, pluginMap, methods, events, lockOwner, lockCount,
                   insts, pool, ncalls>>

\* line 307 with f a listener an addon registered: it raises
listenerRaises(t) ==
    /\ At(t, "fire", "loop")
    /\ LET fr == Top(stack[t])
       IN  /\ InLoop(fr)
           /\ ListenerAt(fr) \in Listeners
           /\ stack' = [stack EXCEPT ![t] = SetTop(@, AfterListenerRaise(fr, ListenerAt(fr)))]
    /\ UNCHANGED <<plugins, pluginMap, methods, events, lockOwner, lockCount,
                   insts, pool, ncalls>>

\* line 307 with f a listener an addon registered: it unregisters itself
\* with removeEvent(event, f) (lines 296-298) and returns
listenerUnregisters(t) ==
    /\ At(t, "fire", "loop")
    /\ LET fr == Top(stack[t])
           f == ListenerAt(fr)
       IN  /\ InLoop(fr)
           /\ f \in Listeners
           /\ events' = [events EXCEPT ![fr.h] = ListRemove(@, f)]
           /\ stack' = [MarkRemoved(stack, fr.h, f) EXCEPT ![t] =
                            SetTop(@, AfterListenerReturn(Top(@), f))]
    /\ UNCHANGED <<plugins, pluginMap, methods, lockOwner, lockCount, insts,
                   pool, ncalls>>

\* lines 304-305: the event has no listeners, or the loop is over
dispatchEnd(t) ==
    /\ At(t, "fire", "loop")
    /\ ~InLoop(Top(stack[t]))
    /\ stack' = [stack EXCEPT ![t] = SetTop(@, [Top(@) EXCEPT !.pc = "done"])]
    /\ UNCHANGED <<plugins, pluginMap, methods, events, lockOwner, lockCount,
                   insts, pool, ncalls>>

\* dispatchEvent when manageAddons is the only listener
manage(t) ==
    \/ dispatchManageNothing(t)
    \/ dispatchManage(t)
    \/ dispatchEnd(t)

dispatchEvent(t) ==
    \/ manage(t)
    \/ listenerReturns(t)
    \/ listenerRaises(t)
    \/ listenerUnregisters(t)

\* ----------------------------------------------------------------- return
\* the last call a frame recorded gets its outcome
SetLastOut(log, out) == [log EXCEPT ![Len(log)].out = out]

\* the caller's frame when the call it was waiting for is over
Resume(parent, child) ==
    IF parent.op = "hook" /\ parent.pc = "incall"
    THEN IF child.exc
         THEN Leave([parent EXCEPT !.log = SetLastOut(@, "raised")])
         ELSE [parent EXCEPT !.pc = "loop", !.i = @ + 1, !.log = SetLastOut(@, "ok")]
    ELSE IF parent.op = "hook"
    THEN IF child.exc THEN Leave(parent) ELSE [parent EXCEPT !.pc = "done"]
    ELSE IF child.exc
         THEN AfterListenerRaise([parent EXCEPT !.pc = "loop"], "manageAddons")
         ELSE AfterListenerReturn([parent EXCEPT !.pc = "loop"], "manageAddons")

\* a method returns or lets an exception out; @lock releases self.lock on
\* both ways out of a hook
return(t) ==
    /\ Running(t)
    /\ Top(stack[t]).pc \in {"done", "raised"}
    /\ LET s == stack[t]
           fr == Top(s)
           rest == Pop(s)
       IN  /\ stack' = [stack EXCEPT ![t] =
                    IF Len(rest) = 0 THEN rest ELSE SetTop(rest, Resume(Top(rest), fr))]
           /\ IF fr.op = "hook" /\ Locked(fr.h)
              THEN lockRelease(t)
              ELSE UNCHANGED <<lockOwner, lockCount>>
    /\ UNCHANGED <<plugins, pluginMap, methods, events, insts, pool, ncalls>>

\* ---------------------------------------------------------------- callers
\* the download engine calls a hook of the manager
callHook(t) ==
    /\ Booted
    /\ ~Running(t)
    /\ ncalls.call < MaxCalls
    /\ \E H \in Hooks : \E a \in HookArgs(H) :
         stack' = [stack EXCEPT ![t] = <<Frame("hook", H, "", a)>>]
    /\ ncalls' = [ncalls EXCEPT !.call = @ + 1]
    /\ UNCHANGED <<plugins, pluginMap, methods, events, lockOwner, lockCount,
                   insts, pool>>

\* line 60: the configuration calls config.pluginCB(plugin, name, value), that
\* is dispatchEvent("pluginConfigChanged", plugin, name, value)
pluginCB(t) ==
    /\ Booted
    /\ ~Running(t)
    /\ ncalls.call < MaxCalls
    /\ \E a \in ConfigArgs :
         stack' = [stack EXCEPT ![t] = <<FireFrame("pluginConfigChanged", a)>>]
    /\ ncalls' = [ncalls EXCEPT !.call = @ + 1]
    /\ UNCHANGED <<plugins, pluginMap, methods, events, lockOwner, lockCount,
                   insts, pool>>

\* the thread pool runs a callable it was handed
runTask ==
    /\ \E task \in pool : pool' = pool \ {task}
    /\ UNCHANGED <<plugins, pluginMap, methods, events, lockOwner, lockCount,
                   insts, stack, ncalls>>
\* -------------------------------------------------------------- event bus
\* the events addons listen on in the model
ListenEvents == {"pluginConfigChanged"}

\* an addEvent that appends whether or not func is in the list
addEventAlways(E, f) ==
    /\ Booted
    /\ ncalls.bus < MaxBus
    /\ IF E \in DOMAIN events
       THEN /\ events' = [events EXCEPT ![E] = Append(@, f)]
            /\ stack' = MarkFires(stack, E)
       ELSE /\ events' = DictSet(events, E, <<f>>)
            /\ stack' = MarkFires(stack, E)
    /\ ncalls' = [ncalls EXCEPT !.bus = @ + 1]
    /\ UNCHANGED <<plugins, pluginMap, methods, lockOwner, lockCount, insts, pool>>

\* lines 286-290
addEvent(E, f) ==
    /\ Booted
    /\ ncalls.bus < MaxBus
    /\ IF E \in DOMAIN events
       THEN IF f \notin Range(events[E])
            THEN /\ events' = [events EXCEPT ![E] = Append(@, f)]
                 /\ stack' = MarkFires(stack, E)
            ELSE UNCHANGED <<events, stack>>
       ELSE /\ events' = DictSet(events, E, <<f>>)
            /\ stack' = MarkFires(stack, E)
    /\ ncalls' = [ncalls EXCEPT !.bus = @ + 1]
    /\ UNCHANGED <<plugins, pluginMap, methods, lockOwner, lockCount, insts, pool>>

\* lines 296-298
removeEvent(E, f) ==
    /\ Booted
    /\ ncalls.bus < MaxBus
    /\ IF E \in DOMAIN events
       THEN IF f \in Range(events[E])
            THEN /\ events' = [events EXCEPT ![E] = ListRemove(@, f)]
                 /\ stack' = MarkRemoved(stack, E, f)
            ELSE UNCHANGED <<events, stack>>
       ELSE UNCHANGED <<events, stack>>
    /\ ncalls' = [ncalls EXCEPT !.bus = @ + 1]
    /\ UNCHANGED <<plugins, pluginMap, methods, lockOwner, lockCount, insts, pool>>

\* ---------------------------------------------------------------- addRPC
\* a dotted plugin name is the list of its components, a doc string the list
\* of its characters
DottedNames == {<<"A">>, <<"addons", "B">>}
Docs == {<<>>, <<" ", "d">>}

\* line 77: plugin.rpartition(".")[2]
ShortName(plugin) == plugin[Len(plugin)]

\* line 78: doc.strip() if doc else ""
RECURSIVE LStrip(_)
LStrip(d) == IF d # <<>> /\ Head(d) = " " THEN LStrip(Tail(d)) ELSE d
RECURSIVE RStrip(_)
RStrip(d) == IF d # <<>> /\ d[Len(d)] = " " THEN RStrip(SubSeq(d, 1, Len(d) - 1)) ELSE d
StripDoc(doc) == RStrip(LStrip(doc))

\* lines 77-83
addRPC(plugin, func, doc) ==
    /\ Booted
    /\ ncalls.bus < MaxBus
    /\ LET n == ShortName(plugin)
           d == StripDoc(doc)
       IN  methods' = IF n \in DOMAIN methods
                      THEN DictSet(methods, n, DictSet(methods[n], func, d))
                      ELSE DictSet(methods, n, DictSet(EmptyDict, func, d))
    /\ ncalls' = [ncalls EXCEPT !.bus = @ + 1]
    /\ UNCHANGED <<plugins, pluginMap, events, lockOwner, lockCount, insts,
                   stack, pool>>

\* --------------------------------------------------------------- callRPC
\* what callRPC is called with: a plugin name, an attribute name, argument
\* strings, and whether to parse them
RPCPlugins == Names \cup {"Unknown"}
RPCFuncs == {"scan", "unload", "bar"}
RPCArgs == {<<>>, <<"1">>, <<"x(">>}

\* the attributes an addon instance has: its exposed method and unload()
\* (line 167 calls it on every addon)
Attrs == {"scan", "unload"}

\* line 89: literal_eval(x) raises on a string that is no Python literal
IsLiteral(x) == x \in {"1"}

\* the frame of a callRPC that is over: pc "raised" with the exception let
\* out, or pc "done"; log holds the call of the addon's method, if one was made
RPCFrame(plugin, func, args, pc, log) ==
    [Frame("callRPC", func, plugin, args) EXCEPT !.pc = pc, !.log = log,
                                                 !.exc = (pc = "raised")]

\* lines 86-93
callRPC(t, plugin, func, args, parse) ==
    /\ Booted
    /\ ~Running(t)
    /\ ncalls.call < MaxCalls
    /\ stack' = [stack EXCEPT ![t] = <<
          IF parse /\ \E k \in 1..Len(args) : ~IsLiteral(args[k])
          THEN RPCFrame(plugin, func, args, "raised", <<>>)       \* line 89
          ELSE IF plugin \notin DOMAIN pluginMap
          THEN RPCFrame(plugin, func, args, "raised", <<>>)       \* line 91: KeyError
          ELSE IF func \notin Attrs
          THEN RPCFrame(plugin, func, args, "raised", <<>>)       \* line 92: AttributeError
          ELSE RPCFrame(plugin, func, args, "done",               \* line 93
                        <<Call(pluginMap[plugin], func, "inline", args, "ok")>>) >>]
    /\ ncalls' = [ncalls EXCEPT !.call = @ + 1]
    /\ UNCHANGED <<plugins, pluginMap, methods, events, lockOwner, lockCount,
                   insts, pool>>

\* ------------------------------------------------------------------- Next
\* The manager in service: thread 1 is the download engine, both threads
\* change the configuration.
Next ==
    \/ \E t \in Threads :
          \/ createIndex(t)
          \/ activateAddon(t)
          \/ deactivateAddon(t)
          \/ hook(t)
          \/ manage(t)
          \/ return(t)
          \/ pluginCB(t)
    \/ callHook(1)

Spec == Init /\ [][Next]_vars

\* The RPC table: addons register methods and the API calls them while the
\* configuration is changed on thread 1.
NextRPC ==
    \/ createIndex(1)
    \/ activateAddon(1)
    \/ deactivateAddon(1)
    \/ manage(1)
    \/ return(1)
    \/ pluginCB(1)
    \/ \E plugin \in DottedNames, func \in Funcs, doc \in Docs : addRPC(plugin, func, doc)
    \/ \E plugin \in RPCPlugins, func \in RPCFuncs, args \in RPCArgs, parse \in BOOLEAN :
          callRPC(1, plugin, func, args, parse)

SpecRPC == Init /\ [][NextRPC]_vars

\* The event bus: addons register and remove listeners while the
\* configuration is changed on thread 1.
NextBus ==
    \/ createIndex(1)
    \/ activateAddon(1)
    \/ deactivateAddon(1)
    \/ dispatchEvent(1)
    \/ return(1)
    \/ pluginCB(1)
    \/ \E E \in ListenEvents, f \in Listeners : addEvent(E, f)
    \/ \E E \in ListenEvents, f \in Listeners : removeEvent(E, f)

SpecBus == Init /\ [][NextBus]_vars

\* The download engine alone on thread 1, with the thread pool: addons change
\* the configuration from inside their callbacks, the pool runs what it was
\* handed sooner or later.
NextEngine ==
    \/ createIndex(1)
    \/ activateAddon(1)
    \/ deactivateAddon(1)
    \/ hook(1)
    \/ manage(1)
    \/ return(1)
    \/ callHook(1)
    \/ runTask

SpecEngine == Init /\ [][NextEngine]_vars /\ WF_vars(runTask)

\* Re-entry: the engine calls hooks on thread 1 and the addons' callbacks call
\* back into the manager on that thread (a configuration change, or another
\* hook).  A thread that can take a step is scheduled in the end.
RunThread(t) ==
    \/ createIndex(t)
    \/ activateAddon(t)
    \/ deactivateAddon(t)
    \/ hook(t)
    \/ callbackCallsHook(t)
    \/ manage(t)
    \/ return(t)

NextReentry ==
    \/ RunThread(1)
    \/ callHook(1)

SpecReentry == Init /\ [][NextReentry]_vars /\ WF_vars(RunThread(1))

\* ----------------------------------------------------------------- claims
\* C1: in every reachable state the index (self.plugins) holds at most one
\* addon instance of any plugin name.
C1_OneInstancePerName ==
    \A j, k \in 1..Len(plugins) :
        j # k => InstName(plugins[j]) # InstName(plugins[k])

\* C2: when no call is in progress, every short name that has an entry in
\* the RPC table and that an addon was constructed for is the name of an
\* instance in the index (after deactivate(name) the table holds nothing for
\* name).
C2_RPCOnlyForIndexed ==
    (\A t \in Threads : ~Running(t)) =>
        \A n \in DOMAIN methods :
            (\E id \in 1..Len(insts) : InstName(id) = n) => AlreadyLoaded(n)

\* C3: when the loop of a hook is over without an exception, every addon
\* that was in the index when the hook was entered, is still in it and
\* passes the hook's activation test was called or submitted exactly once by
\* this hook call.
C3_SnapshotDispatch ==
    \A t \in Threads : \A k \in 1..Len(stack[t]) :
        LET fr == stack[t][k]
        IN  (fr.op = "hook" /\ fr.pc \in {"fire", "done"} /\ fr.errs = 0) =>
                \A p \in 1..Len(fr.snap) :
                    (fr.snap[p] \in Range(plugins) /\ Delivery(fr.h, fr.snap[p]) # "skip") =>
                        Cardinality({j \in 1..Len(fr.log) : fr.log[j].who = fr.snap[p]}) = 1

\* C4: downloadPreparing, downloadFinished, packageFinished,
\* beforeReconnecting and afterReconnecting never let an exception of an
\* addon's callback out to their caller.
C4_FailureIsolated ==
    \A t \in Threads : \A k \in 1..Len(stack[t]) :
        LET fr == stack[t][k]
        IN  (/\ fr.op = "hook"
             /\ fr.h \in {"downloadPreparing", "downloadFinished", "packageFinished",
                          "beforeReconnecting", "afterReconnecting"})
            => fr.pc # "raised"

\* C5: when deactivateAddon(name) found an instance and is over, whether its
\* teardown raised or not, the instance is in the index and in the
\* name-to-instance map no more.
C5_DeactivateCompletes ==
    \A t \in Threads : \A k \in 1..Len(stack[t]) :
        LET fr == stack[t][k]
        IN  (fr.op = "deactivateAddon" /\ fr.inst # NoInst /\ fr.pc \in {"done", "raised"})
            => /\ fr.inst \notin Range(plugins)
               /\ \A n \in DOMAIN pluginMap : pluginMap[n] # fr.inst

\* C6: every delivery made by downloadPreparing, downloadFinished,
\* downloadFailed, packageFinished or afterReconnecting is of the addon's own
\* callback of that hook with the hook's argument, submitted to a thread when
\* the addon declares the hook threaded and called inline when it does not.
C6_ThreadedDelivery ==
    \A t \in Threads : \A k \in 1..Len(stack[t]) :
        LET fr == stack[t][k]
        IN  (/\ fr.op = "hook"
             /\ fr.h \in {"downloadPreparing", "downloadFinished", "downloadFailed",
                          "packageFinished", "afterReconnecting"})
            => \A j \in 1..Len(fr.log) :
                  /\ fr.log[j].cb = fr.h
                  /\ fr.log[j].args = fr.args
                  /\ fr.log[j].mode = IF fr.h \in Threaded(InstName(fr.log[j].who))
                                      THEN "thread" ELSE "inline"

\* C7: dispatchEvent never lets an exception of a listener out; every
\* exception is logged; and a dispatchEvent(E, args) that is over, with the
\* listener list of E unchanged since it began, has called every listener of
\* E once, in the order of the list (L1 before L2), each with args, whether
\* the listeners before it raised or not.
C7_FireOrderAndIsolation ==
    \A t \in Threads : \A k \in 1..Len(stack[t]) :
        LET fr == stack[t][k]
        IN  fr.op = "fire" =>
              /\ fr.pc # "raised"
              /\ ~fr.exc
              /\ fr.errs = Cardinality({j \in 1..Len(fr.log) : fr.log[j].out = "raised"})
              /\ (fr.pc = "done" /\ ~fr.dirty) =>
                    /\ Len(fr.log) = Len(fr.snap)
                    /\ \A j \in 1..Len(fr.log) :
                          /\ fr.log[j].who = fr.snap[j]
                          /\ fr.log[j].args = fr.args
                          /\ fr.log[j].out \in {"ok", "raised"}

\* C7 witness: a dispatchEvent is over in which L1 raised and L2, registered
\* after it, was called after it.
C7_Witness ==
    \E t \in Threads : \E k \in 1..Len(stack[t]) :
        LET fr == stack[t][k]
        IN  /\ fr.op = "fire"
            /\ fr.pc = "done"
            /\ ~fr.dirty
            /\ \E i, j \in 1..Len(fr.log) :
                  /\ i < j
                  /\ fr.log[i].who = "L1"
                  /\ fr.log[i].out = "raised"
                  /\ fr.log[j].who = "L2"

\* C8: coreReady, coreExiting and downloadFailed never let an exception out;
\* the callback that raised is the last call the hook makes, the hook is over
\* and the exception was logged once.
C8_GuardedHookAborts ==
    \A t \in Threads : \A k \in 1..Len(stack[t]) :
        LET fr == stack[t][k]
        IN  (fr.op = "hook" /\ fr.h \in {"coreReady", "coreExiting", "downloadFailed"}) =>
              /\ fr.pc # "raised"
              /\ ~fr.exc
              /\ fr.errs <= 1
              /\ \A j \in 1..Len(fr.log) :
                    fr.log[j].out = "raised" =>
                        (j = Len(fr.log) /\ fr.pc = "done" /\ fr.errs = 1)

\* C8 witness: a guarded hook is over after a callback raised, with an addon
\* left in the index behind the one that raised.
C8_Witness ==
    \E t \in Threads : \E k \in 1..Len(stack[t]) :
        LET fr == stack[t][k]
        IN  /\ fr.op = "hook"
            /\ fr.h \in {"coreReady", "coreExiting", "downloadFailed"}
            /\ fr.pc = "done"
            /\ fr.errs = 1
            /\ Len(fr.log) > 0
            /\ fr.log[Len(fr.log)].out = "raised"
            /\ fr.i < Len(plugins)

\* C9: beforeReconnecting makes a call for every instance its loop comes to,
\* whatever isActivated() says (and these are the instances of the index, in
\* order, while the index is unchanged); every other hook delivers, inline
\* or to a thread, only to instances whose isActivated() is true.
C9_ActivationFilter ==
    \A t \in Threads : \A k \in 1..Len(stack[t]) :
        LET fr == stack[t][k]
        IN  fr.op = "hook" =>
              IF fr.h = "beforeReconnecting"
              THEN /\ Len(fr.log) = IF fr.pc \in {"incall", "raised"} THEN fr.i ELSE fr.i - 1
                   /\ ~fr.dirty => \A j \in 1..Len(fr.log) : fr.log[j].who = fr.snap[j]
              ELSE \A j \in 1..Len(fr.log) : isActivated(fr.log[j].who)

\* C9 witness: beforeReconnecting has called an instance whose isActivated()
\* is false.
C9_Witness ==
    \E t \in Threads : \E k \in 1..Len(stack[t]) :
        LET fr == stack[t][k]
        IN  /\ fr.op = "hook"
            /\ fr.h = "beforeReconnecting"
            /\ \E j \in 1..Len(fr.log) : ~isActivated(fr.log[j].who)

\* C10: when downloadFinished(item) is about to return, with the index
\* unchanged since it was entered, it has delivered to every activated
\* instance in order, with item: the callback of an addon that declares
\* downloadFinished threaded (A) was submitted and not called, the callback
\* of one that does not (B) was called and has returned; and every submitted
\* downloadFinished callback is run by the pool in the end.
C10_ThreadedAndSync ==
    /\ [](\A t \in Threads : \A k \in 1..Len(stack[t]) :
            LET fr == stack[t][k]
                act == SelectSeq(fr.snap, isActivated)
            IN  (fr.op = "hook" /\ fr.h = "downloadFinished" /\ fr.pc = "done" /\ ~fr.dirty) =>
                  /\ Len(fr.log) = Len(act)
                  /\ \A j \in 1..Len(fr.log) :
                        /\ fr.log[j].who = act[j]
                        /\ fr.log[j].cb = "downloadFinished"
                        /\ fr.log[j].args = fr.args
                        /\ fr.log[j].out = "ok"
                        /\ fr.log[j].mode =
                              IF "downloadFinished" \in Threaded(InstName(act[j]))
                              THEN "thread" ELSE "inline")
    /\ \A id \in 1..MaxInst : \A f \in Files :
          ([inst |-> id, cb |-> "downloadFinished", args |-> <<f>>] \in pool)
             ~> ([inst |-> id, cb |-> "downloadFinished", args |-> <<f>>] \notin pool)

\* C10 witness: downloadFinished(item) is about to return, B's callback has
\* returned, A's callback was submitted and the pool has not run it yet.
C10_Witness ==
    \E t \in Threads : \E k \in 1..Len(stack[t]) :
        LET fr == stack[t][k]
        IN  /\ fr.op = "hook"
            /\ fr.h = "downloadFinished"
            /\ fr.pc = "done"
            /\ ~fr.dirty
            /\ \E i, j \in 1..Len(fr.log) :
                  /\ InstName(fr.log[i].who) = "A"
                  /\ fr.log[i].mode = "thread"
                  /\ [inst |-> fr.log[i].who, cb |-> "downloadFinished", args |-> fr.args] \in pool
                  /\ InstName(fr.log[j].who) = "B"
                  /\ fr.log[j].mode = "inline"
                  /\ fr.log[j].out = "ok"

\* C11: callRPC calls an addon's method only when plugin names an instance in
\* the index and the method is registered for that plugin in the RPC table;
\* when plugin is not in the index it fails and calls nothing.
C11_RPCOnlyRegistered ==
    \A t \in Threads : \A k \in 1..Len(stack[t]) :
        LET fr == stack[t][k]
        IN  fr.op = "callRPC" =>
              /\ Len(fr.log) > 0 =>
                    /\ AlreadyLoaded(fr.name)
                    /\ fr.name \in DOMAIN methods
                    /\ fr.h \in DOMAIN methods[fr.name]
              /\ ~AlreadyLoaded(fr.name) => (fr.pc = "raised" /\ Len(fr.log) = 0)

\* C12: in every reachable state, during and after index build, activate and
\* deactivate, the names of the instances in plugins are the keys of
\* pluginMap, and each key maps to an instance of that name held in plugins.
C12_IndexMapConsistent ==
    /\ {InstName(plugins[k]) : k \in 1..Len(plugins)} = DOMAIN pluginMap
    /\ \A n \in DOMAIN pluginMap :
          /\ pluginMap[n] \in Range(plugins)
          /\ InstName(pluginMap[n]) = n

\* C13: every call of a lifecycle hook H(args) fires the event H exactly once
\* with the same args, also when an addon's hook raised during the loop: a
\* hook call that is over has fired H(args) once.
C13_HookFiresOnce ==
    \A t \in Threads : \A k \in 1..Len(stack[t]) :
        LET fr == stack[t][k]
        IN  (fr.op = "hook" /\ fr.pc \in {"done", "raised"}) =>
              fr.acc = << <<fr.h, fr.args>> >>

C20_FireDeliversUnderMutation ==
    \A t \in Threads : \A k \in 1..Len(stack[t]) :
        LET fr == stack[t][k]
        IN  (fr.op = "fire" /\ fr.pc = "done") =>
              \A f \in Range(fr.snap) \ Range(fr.acc) :
                  Cardinality({j \in 1..Len(fr.log) : fr.log[j].who = f}) = 1

\* C15: activateAddon(name) for a name that is in the index is a no-op: as
\* long as an instance of that name has been in the index since the call
\* began, the call constructs no instance, raises nothing and is at most over.
C15_ActivatePresentNoop ==
    \A t \in Threads : \A k \in 1..Len(stack[t]) :
        LET fr == stack[t][k]
        IN  (fr.op = "activateAddon" /\ ~fr.dirty) =>
              (fr.pc \in {"start", "done"} /\ fr.inst = NoInst)

\* C16: deactivateAddon(name) for a name that is not in the index is a no-op:
\* its step returns without an exception and without a teardown, and leaves
\* the index, the map, the RPC table, the instances and the thread pool as
\* they were.
C16_DeactivateAbsentNoop ==
    [][\A t \in Threads :
          (/\ At(t, "deactivateAddon", "start")
           /\ \A k \in 1..Len(plugins) : InstName(plugins[k]) # Top(stack[t]).name
           /\ stack'[t] # stack[t])
          => /\ stack'[t] = SetTop(stack[t], [Top(stack[t]) EXCEPT !.pc = "done"])
             /\ Top(stack[t]).inst = NoInst
             /\ ~Top(stack[t]).exc
             /\ plugins' = plugins
             /\ pluginMap' = pluginMap
             /\ methods' = methods
             /\ insts' = insts
             /\ pool' = pool]_vars

\* C16 witness: a deactivateAddon is over that found no addon of its name,
\* with a method registered in the RPC table.
C16_Witness ==
    /\ At(1, "deactivateAddon", "done")
    /\ Top(stack[1]).inst = NoInst
    /\ \A k \in 1..Len(plugins) : InstName(plugins[k]) # Top(stack[1]).name
    /\ methods # EmptyDict

\* C17: while a thread holds the lock and is in the loop of a lock-guarded
\* hook, no activateAddon or deactivateAddon running on another thread appends
\* to or removes from the index.
C17_LockSerializesIndex ==
    [][\A t, u \in Threads :
          (/\ u # t
           /\ lockOwner = t
           /\ \E k \in 1..Len(stack[t]) :
                 /\ stack[t][k].op = "hook"
                 /\ stack[t][k].h \in {"downloadPreparing", "downloadFinished",
                                       "downloadFailed", "packageFinished",
                                       "afterReconnecting"}
                 /\ stack[t][k].pc \in {"loop", "incall"}
           /\ (At(u, "activateAddon", "append") \/ At(u, "deactivateAddon", "remove")))
          => (plugins' = plugins \/ stack'[u] = stack[u])]_vars

\* C18: in a lock-guarded hook the lock is released before the event is
\* fired: while a dispatchEvent called by a lock-guarded hook runs, the
\* thread that runs it does not hold the lock.
C18_FireOutsideLock ==
    \A t \in Threads : \A k \in 2..Len(stack[t]) :
        (/\ stack[t][k].op = "fire"
         /\ stack[t][k-1].op = "hook"
         /\ stack[t][k-1].pc = "fire"
         /\ stack[t][k-1].h \in {"downloadPreparing", "downloadFinished",
                                 "downloadFailed", "packageFinished",
                                 "beforeReconnecting", "afterReconnecting"})
        => lockOwner # t

\* C19: a dispatch never deadlocks on its own thread: when a callback of a
\* hook that holds the lock has called back into the manager on the same
\* thread (a configuration change, or another hook), the thread in the end
\* has returned from every call and no thread holds the lock; and a thread
\* that is in no call never owns the lock.
C19_ReentryNoSelfDeadlock ==
    /\ [](\A t \in Threads :
            Len(stack[t]) = 0 => (lockOwner # t /\ (lockOwner = NoThread <=> lockCount = 0)))
    /\ (\E k \in 1..Len(stack[1]) :
           /\ stack[1][k].op = "hook"
           /\ stack[1][k].h \in {"downloadPreparing", "downloadFinished",
                                 "downloadFailed", "packageFinished",
                                 "beforeReconnecting", "afterReconnecting"}
           /\ stack[1][k].pc = "incall")
         ~> (Len(stack[1]) = 0 /\ lockOwner = NoThread /\ lockCount = 0)

\* C19 witness: a callback of a lock-guarded hook has called another
\* lock-guarded hook on the same thread, and that hook has taken the lock a
\* second time and is in its loop.
C19_Witness ==
    /\ lockOwner = 1
    /\ lockCount = 2
    /\ \E k \in 2..Len(stack[1]) :
          /\ stack[1][k].op = "hook"
          /\ stack[1][k].pc = "loop"
          /\ stack[1][k-1].op = "hook"
          /\ stack[1][k-1].pc = "incall"

=============================================================================
